---- MODULE Spec2Model ----
(***************************************************************************)
(* fhir-query: the query executors FhirQueryClient (synchronous) and       *)
(* AsyncFhirQueryClient (asynchronous), the FhirQueryBundle they return,   *)
(* and the helpers of utils.py.                                            *)
(*                                                                         *)
(* Python values are modelled as follows.  A str is a TLA+ string.  An     *)
(* optional value is None (the empty tuple) or Some(v) (a one-tuple).  A   *)
(* dict with string keys is a function from its keys; an ordered dict of   *)
(* query parameters is a sequence of <<key, value>> pairs.  A JSON object  *)
(* is a record whose DOMAIN holds exactly the keys that are present.       *)
(* Environment variables (os.getenv fallbacks) are taken to be unset.      *)
(***************************************************************************)
EXTENDS Integers, Sequences, FiniteSets, TLC

VARIABLES
    pc,            \* position of the caller: new, ctor_failed, idle, ensure_auth, _get, paging, done, raised, setup_done, bundle
    client,        \* the client object's fields
    call,          \* the arguments of the get call in progress (or last made)
    log,           \* transport exchanges of the operation in progress, in order
    served,        \* bundle JSONs the server returned to this call, in order
    chainLen,      \* m: length of the server's page chain for this call (0 before the first FHIR exchange)
    fqc_bundle,    \* data of the FhirQueryBundle being built / held by the caller
    remaining_pages, \* _get's loop counter
    err,           \* exception type that reached the caller ("" if none)
    returned,      \* None, or Some(data of the bundle get returned)
    lastOp,        \* the last bundle-level operation of the caller: its argument and the data before it
    logins         \* login exchanges made over the client's lifetime

vars == <<pc, client, call, log, served, chainLen, fqc_bundle, remaining_pages, err, returned, lastOp, logins>>

---------------------------------------------------------------------------
(* Bounds of the model *)

\* longest page chain the server holds; pages arguments range up to MaxPages + 1
MaxPages == 3
\* most entries a bundle built with NewBundle / add_bundle may hold
MaxEntries == 4
\* login exchanges one client is followed through
MaxLogins == 2
MaxSegments == 2

---------------------------------------------------------------------------
(* Python values *)

None == << >>
Some(v) == <<v>>
IsNone(o) == Len(o) = 0
Val(o) == o[1]

\* truthiness of an optional str: None and "" are falsy
TruthyStr(o) == ~IsNone(o) /\ Val(o) # ""
\* truthiness of an optional dict / list: None and the empty one are falsy
TruthySeq(o) == ~IsNone(o) /\ Len(Val(o)) > 0
\* truthiness of an optional int: None and 0 are falsy
TruthyInt(o) == ~IsNone(o) /\ Val(o) # 0

EmptyDict == [k \in {} |-> ""]
\* {**a, **b}
DictMerge(a, b) == [k \in (DOMAIN a) \cup (DOMAIN b) |-> IF k \in DOMAIN b THEN b[k] ELSE a[k]]
\* d[k] = v
DictPut(d, k, v) == [x \in (DOMAIN d) \cup {k} |-> IF x = k THEN v ELSE d[x]]
\* headers or {}
OrEmpty(o) == IF IsNone(o) \/ DOMAIN Val(o) = {} THEN EmptyDict ELSE Val(o)

Min(S) == CHOOSE x \in S : \A y \in S : x <= y
MinOf(a, b) == IF a <= b THEN a ELSE b

endswith(s, suffix) ==
    Len(s) >= Len(suffix) /\ SubSeq(s, Len(s) - Len(suffix) + 1, Len(s)) = suffix

---------------------------------------------------------------------------
(* urllib.parse.urlencode / urljoin and json.dumps, on the alphabet used *)

\* quote_plus of one character: letters, digits and "_.-~" are safe, a space
\* becomes "+", every other character is percent-encoded
quote_char(c) ==
    CASE c = " " -> "+"
      [] c = "&" -> "%26"
      [] c = "=" -> "%3D"
      [] c = "/" -> "%2F"
      [] c = "?" -> "%3F"
      [] c = ":" -> "%3A"
      [] OTHER -> c

RECURSIVE quote_plus(_)
quote_plus(s) ==
    IF s = "" THEN "" ELSE quote_char(SubSeq(s, 1, 1)) \o quote_plus(SubSeq(s, 2, Len(s)))

\* urlencode(params): key=value pairs in the dict's order, joined by "&"
RECURSIVE urlencode(_)
urlencode(params) ==
    IF Len(params) = 0 THEN ""
    ELSE quote_plus(params[1][1]) \o "=" \o quote_plus(params[1][2])
         \o (IF Len(params) = 1 THEN "" ELSE "&" \o urlencode(Tail(params)))

\* json.dumps(obj) for obj a str without quotes or backslashes, or None
json_dumps(o) == IF IsNone(o) THEN "null" ELSE "\"" \o Val(o) \o "\""

\* s begins with prefix
startswith(s, prefix) ==
    Len(s) >= Len(prefix) /\ SubSeq(s, 1, Len(prefix)) = prefix

\* index of the last "/" of s (0 if none)
RECURSIVE last_slash(_, _)
last_slash(s, i) ==
    IF i = 0 THEN 0 ELSE IF SubSeq(s, i, i) = "/" THEN i ELSE last_slash(s, i - 1)

\* urljoin(base, ref) for a base without query or fragment and a relative
\* reference of plain segments: the base up to its last "/" followed by ref
urljoin(base, ref) == SubSeq(base, 1, last_slash(base, Len(base))) \o ref

---------------------------------------------------------------------------
(* utils.py and FhirQueryBundle *)

Max(S) == CHOOSE x \in S : \A y \in S : x >= y

\* get_link keeping the last element of the relation instead of the first
get_link_last(bundle, relation) ==
    IF "link" \notin DOMAIN bundle THEN None
    ELSE LET hits == {i \in 1..Len(bundle.link) : bundle.link[i].relation = relation}
         IN  IF hits = {} THEN None ELSE Some(bundle.link[Max(hits)].url)

get_link(bundle, relation) ==
    IF "link" \notin DOMAIN bundle THEN None
    ELSE LET hits == {i \in 1..Len(bundle.link) : bundle.link[i].relation = relation}
         IN  IF hits = {} THEN None ELSE Some(bundle.link[Min(hits)].url)

get_next_link(bundle) == get_link(bundle, "next")

get_resources_from_bundle(bundle) ==
    IF "entry" \in DOMAIN bundle
    THEN [i \in 1..Len(bundle.entry) |-> bundle.entry[i].resource]
    ELSE << >>

size(bundle) == Len(get_resources_from_bundle(bundle))

get_previous_link(bundle) == get_link(bundle, "previous")

\* the single-resource accessor returning the first resource of any non-empty bundle
resource_first(bundle) ==
    IF size(bundle) >= 1
    THEN [raised |-> "", value |-> Some(get_resources_from_bundle(bundle)[1])]
    ELSE [raised |-> "", value |-> None]

\* FhirQueryBundle.resource: the exception raised ("" if none) and the value
resource(bundle) ==
    IF size(bundle) = 1
    THEN [raised |-> "", value |-> Some(get_resources_from_bundle(bundle)[1])]
    ELSE IF size(bundle) > 1
    THEN [raised |-> "ValueError", value |-> None]
    ELSE [raised |-> "", value |-> None]

\* FhirQueryBundle.collect_ids: resource["id"] raises KeyError on a resource
\* that has no id
collect_ids(bundle) ==
    LET rs == get_resources_from_bundle(bundle)
    IN  IF \E i \in 1..Len(rs) : "id" \notin DOMAIN rs[i]
        THEN [raised |-> "KeyError", value |-> << >>]
        ELSE [raised |-> "", value |-> [i \in 1..Len(rs) |-> rs[i].id]]

__len__(bundle) == Len(get_resources_from_bundle(bundle))

\* FhirQueryBundle.__getitem__: list indexing, negative indices count from the
\* end, IndexError out of range
__getitem__(bundle, index) ==
    LET rs == get_resources_from_bundle(bundle)
        i  == IF index < 0 THEN Len(rs) + index + 1 ELSE index + 1
    IN  IF i \in 1..Len(rs)
        THEN [raised |-> "", value |-> Some(rs[i])]
        ELSE [raised |-> "IndexError", value |-> None]

__iter__(bundle) == get_resources_from_bundle(bundle)

__contains__(bundle, item) ==
    \E i \in 1..Len(get_resources_from_bundle(bundle)) :
        get_resources_from_bundle(bundle)[i] = item

__bool__(bundle) == Len(get_resources_from_bundle(bundle)) > 0

\* a FhirQueryBundle object: its identity and its data
BundleObject(ident, data) == [id |-> ident, data |-> data]

\* bundle == other: the class defines no __eq__, so the comparison is the one
\* of object, identity
__eq__(self, other) == self.id = other.id

\* constants.py: the default Projection Spec of each resource type, every spec
\* in its insertion order
DF_DEFAULT_COLUMNS ==
    ("Patient" :>
       <<<<"resourceType", "resourceType">>,
         <<"id", "id">>,
         <<"firstname", "name[0].given[0]">>,
         <<"lastname", "name[0].family">>,
         <<"gender", "gender">>,
         <<"birthdate", "birthDate">>,
         <<"street", "address[0].line[0]">>,
         <<"city", "address[0].city">>,
         <<"state", "address[0].state">>>>)
    @@ ("Condition" :>
       <<<<"resourceType", "resourceType">>,
         <<"id", "id">>,
         <<"category", "category[0].coding[0].display">>,
         <<"display", "code.coding[0].display">>,
         <<"code", "code.coding[0].code">>,
         <<"system", "code.coding[0].system">>,
         <<"subject", "subject.reference">>,
         <<"encounter", "encounter.reference">>,
         <<"date", "recordedDate">>>>)
    @@ ("Observation" :>
       <<<<"resourceType", "resourceType">>,
         <<"id", "id">>,
         <<"category", "category[0].coding[0].display">>,
         <<"display", "code.coding[0].display">>,
         <<"code", "code.coding[0].display">>,
         <<"system", "code.coding[0].system">>,
         <<"value", "valueQuantity.value">>,
         <<"unit", "valueQuantity.unit">>,
         <<"subject", "subject.reference">>,
         <<"encounter", "encounter.reference">>,
         <<"date", "effectiveDateTime">>>>)
    @@ ("DiagnosticReport" :>
       <<<<"resourceType", "resourceType">>,
         <<"id", "id">>,
         <<"title", "presentedForm[0].title">>,
         <<"url", "presentedForm[0].attachment.url">>,
         <<"contentType", "presentedForm[0].contentType">>,
         <<"category", "category[0].coding[0].display">>,
         <<"subject", "subject.reference">>,
         <<"encounter", "encounter.reference">>,
         <<"date", "effectiveDateTime">>>>)
    @@ ("Medication" :>
       <<<<"resourceType", "resourceType">>,
         <<"id", "id">>,
         <<"display", "code.coding[0].display">>,
         <<"code", "code.coding[0].code">>,
         <<"system", "code.coding[0].system">>,
         <<"manufacturer", "manufacturer.display">>>>)
    @@ ("MedicationRequest" :>
       <<<<"resourceType", "resourceType">>,
         <<"id", "id">>,
         <<"medication", "medicationReference.reference">>,
         <<"status", "status">>,
         <<"subject", "subject.reference">>>>)
    @@ ("MedicationAdministration" :>
       <<<<"resourceType", "resourceType">>,
         <<"id", "id">>,
         <<"medication", "medicationReference.reference">>,
         <<"status", "status">>,
         <<"subject", "subject.reference">>,
         <<"effectiveDateTime", "effectiveDateTime">>,
         <<"dosageText", "dosage.text">>>>)
    @@ ("MedicationStatement" :>
       <<<<"resourceType", "resourceType">>,
         <<"id", "id">>,
         <<"medication", "medicationReference.reference">>,
         <<"status", "status">>,
         <<"subject", "subject.reference">>,
         <<"dateAsserted", "dateAsserted">>,
         <<"dosageText", "dosage[0].text">>>>)
    @@ ("Location" :>
       <<<<"resourceType", "resourceType">>,
         <<"id", "id">>,
         <<"description", "description">>,
         <<"status", "status">>,
         <<"partOf", "partOf.reference">>>>)

RECURSIVE Flatten(_)
\* the concatenation of a sequence of sequences
Flatten(ss) == IF Len(ss) = 0 THEN << >> ELSE ss[1] \o Flatten(SubSeq(ss, 2, Len(ss)))

\* the path evaluator, compile(path)(resource) of fhirpathpy: the matches of
\* the path in the resource, in document order; a path through a repeated
\* element matches once per element, an index selects one element
evaluate(path, r) ==
    LET names == IF "name" \in DOMAIN r THEN r.name ELSE << >>
    IN  CASE path = "name.given" ->
                 Flatten([i \in 1..Len(names) |-> names[i].given])
          [] path = "name.family" ->
                 [i \in 1..Len(names) |-> names[i].family]
          [] path = "name[0].given[0]" ->
                 IF Len(names) >= 1 /\ Len(names[1].given) >= 1
                 THEN <<names[1].given[1]>> ELSE << >>
          [] path = "name[0].family" ->
                 IF Len(names) >= 1 THEN <<names[1].family>> ELSE << >>
          [] OTHER ->
                 IF path \in DOMAIN r
                 THEN (IF path = "name" THEN r.name ELSE <<r[path]>>)
                 ELSE << >>

\* a row field that keeps a single match wrapped in its list
row_value_wrapped(values) ==
    IF Len(values) > 0 THEN [tag |-> "list", v |-> values]
    ELSE [tag |-> "None", v |-> << >>]

\* values[0] if values and len(values) == 1 else values if values else None:
\* the unwrapped value, the list of matches, or None
row_value(values) ==
    IF Len(values) = 1 THEN [tag |-> "value", v |-> <<values[1]>>]
    ELSE IF Len(values) > 0 THEN [tag |-> "list", v |-> values]
    ELSE [tag |-> "None", v |-> << >>]

\* the row of one resource: a dict in the insertion order of paths
row_of(r, paths) ==
    [k \in 1..Len(paths) |-> <<paths[k][1], row_value(evaluate(paths[k][2], r))>>]

\* resource_iter: bundle["entry"] raises KeyError when the field is absent
resource_iter(bundle) ==
    IF "entry" \in DOMAIN bundle
    THEN [raised |-> "", value |-> [i \in 1..Len(bundle.entry) |-> bundle.entry[i].resource]]
    ELSE [raised |-> "KeyError", value |-> << >>]

\* rows that leave out the keys whose path has no match
collect_many_paths_skip_absent(bundle, paths) ==
    LET it == resource_iter(bundle)
        present(row) == LET IsSet(kv) == kv[2].tag # "None" IN SelectSeq(row, IsSet)
    IN  [raised |-> it.raised,
         value |-> [i \in 1..Len(it.value) |-> present(row_of(it.value[i], paths))]]

collect_many_paths(bundle, paths) ==
    LET it == resource_iter(bundle)
    IN  [raised |-> it.raised,
         value |-> [i \in 1..Len(it.value) |-> row_of(it.value[i], paths)]]

\* pandas.DataFrame(rows) of a list of dicts: the columns are the keys in the
\* order they first appear
RECURSIVE frame_columns(_, _)
frame_columns(keys, cols) ==
    IF Len(keys) = 0 THEN cols
    ELSE frame_columns(SubSeq(keys, 2, Len(keys)),
                       IF \E j \in 1..Len(cols) : cols[j] = keys[1]
                       THEN cols ELSE Append(cols, keys[1]))

DataFrame(rows) ==
    [columns |-> frame_columns(Flatten([i \in 1..Len(rows) |->
                                           [k \in 1..Len(rows[i]) |-> rows[i][k][1]]]), << >>),
     rows |-> rows]

bundle_to_df(bundle, columns) ==
    LET rows == collect_many_paths(bundle, columns)
    IN  [raised |-> rows.raised,
         value |-> IF rows.raised = "" THEN DataFrame(rows.value) ELSE DataFrame(<< >>)]

\* to_df returning an empty table where the resource type has no default
to_df_no_default_empty(bundle, columns) ==
    IF size(bundle) = 0 /\ IsNone(columns)
    THEN [raised |-> "ValueError", value |-> DataFrame(<< >>)]
    ELSE IF size(bundle) = 0
    THEN [raised |-> "IndexError", value |-> DataFrame(<< >>)]
    ELSE LET first_resource_type == get_resources_from_bundle(bundle)[1].resourceType
         IN  IF IsNone(columns)
             THEN IF first_resource_type \in DOMAIN DF_DEFAULT_COLUMNS
                  THEN bundle_to_df(bundle, DF_DEFAULT_COLUMNS[first_resource_type])
                  ELSE [raised |-> "", value |-> DataFrame(<< >>)]
             ELSE bundle_to_df(bundle, Val(columns))

\* FhirQueryBundle.to_df: self.resources[0] raises IndexError on a bundle
\* without resources
to_df(bundle, columns) ==
    IF size(bundle) = 0 /\ IsNone(columns)
    THEN [raised |-> "ValueError", value |-> DataFrame(<< >>)]
    ELSE IF size(bundle) = 0
    THEN [raised |-> "IndexError", value |-> DataFrame(<< >>)]
    ELSE LET first_resource_type == get_resources_from_bundle(bundle)[1].resourceType
         IN  IF IsNone(columns)
             THEN IF first_resource_type \in DOMAIN DF_DEFAULT_COLUMNS
                  THEN bundle_to_df(bundle, DF_DEFAULT_COLUMNS[first_resource_type])
                  ELSE [raised |-> "ValueError", value |-> DataFrame(<< >>)]
             ELSE bundle_to_df(bundle, Val(columns))

\* add_bundle with list.insert(0, ...) semantics: new entries go in front
add_bundle_prepend(data, bundle) ==
    LET new_entries == IF "entry" \in DOMAIN bundle THEN bundle.entry ELSE << >>
    IN  IF "entry" \in DOMAIN data
        THEN [raised |-> "", data |-> [data EXCEPT !.entry = new_entries \o @],
              other |-> bundle]
        ELSE [raised |-> "KeyError", data |-> data, other |-> bundle]

\* add_bundle taking over the links of the bundle it adds
add_bundle_take_links(data, bundle) ==
    LET new_entries == IF "entry" \in DOMAIN bundle THEN bundle.entry ELSE << >>
        links == IF "link" \in DOMAIN bundle THEN "link" :> bundle.link ELSE EmptyDict
    IN  IF "entry" \in DOMAIN data
        THEN [raised |-> "", other |-> bundle,
              data |-> links @@ [data EXCEPT !.entry = @ \o new_entries]]
        ELSE [raised |-> "KeyError", data |-> data, other |-> bundle]

\* FhirQueryBundle.add_bundle on the bundle's data: the data afterwards, the
\* added bundle afterwards and the exception raised ("" if none)
add_bundle(data, bundle) ==
    LET new_entries == IF "entry" \in DOMAIN bundle THEN bundle.entry ELSE << >>
    IN  IF "entry" \in DOMAIN data
        THEN [raised |-> "", data |-> [data EXCEPT !.entry = @ \o new_entries],
              other |-> bundle]
        ELSE [raised |-> "KeyError", data |-> data, other |-> bundle]

RECURSIVE rstrip(_)
\* s.rstrip("/")
rstrip(s) ==
    IF Len(s) > 0 /\ SubSeq(s, Len(s), Len(s)) = "/"
    THEN rstrip(SubSeq(s, 1, Len(s) - 1)) ELSE s

RECURSIVE lstrip(_)
\* s.lstrip("/")
lstrip(s) ==
    IF Len(s) > 0 /\ SubSeq(s, 1, 1) = "/" THEN lstrip(SubSeq(s, 2, Len(s))) ELSE s

RECURSIVE split_from(_, _, _)
\* the parts of s from position i on, start being where the current part began
split_from(s, start, i) ==
    IF i > Len(s) THEN <<SubSeq(s, start, Len(s))>>
    ELSE IF SubSeq(s, i, i) = "/"
    THEN <<SubSeq(s, start, i - 1)>> \o split_from(s, i + 1, i + 1)
    ELSE split_from(s, start, i + 1)

\* s.split("/")
split(s) == split_from(s, 1, 1)

RECURSIVE join(_)
\* "/".join(parts)
join(parts) ==
    IF Len(parts) = 0 THEN ""
    ELSE IF Len(parts) = 1 THEN parts[1]
    ELSE parts[1] \o "/" \o join(Tail(parts))

\* merge_url_with_path: the url parts before the first position from which the
\* rest of the url is a string prefix of the path, followed by the path parts
merge_url_with_path(url, path) ==
    LET u == rstrip(url)
        p == lstrip(path)
        url_parts == split(u)
        path_parts == split(p)
        hits == {i \in 1..Len(url_parts) :
                    startswith(p, join(SubSeq(url_parts, i, Len(url_parts))))}
    IN  IF hits # {}
        THEN join(SubSeq(url_parts, 1, Min(hits) - 1) \o path_parts)
        ELSE u \o "/" \o p

\* the caller holds no bundle
NoBundle == [resourceType |-> "NoBundle"]

---------------------------------------------------------------------------
(* base64.b64encode(s.encode()).decode() for ASCII s *)

Digits == "0123456789"
Upper == "ABCDEFGHIJKLMNOPQRSTUVWXYZ"
Lower == "abcdefghijklmnopqrstuvwxyz"
B64Alphabet == Upper \o Lower \o Digits \o "+/"
IndexIn(str, c) == CHOOSE i \in 1..Len(str) : SubSeq(str, i, i) = c
Within(str, c) == \E i \in 1..Len(str) : SubSeq(str, i, i) = c
\* the ASCII code of a letter, a digit or one of " -.:_"
ord(c) ==
    CASE Within(Digits, c) -> 47 + IndexIn(Digits, c)
      [] Within(Upper, c) -> 64 + IndexIn(Upper, c)
      [] Within(Lower, c) -> 96 + IndexIn(Lower, c)
      [] c = " " -> 32
      [] c = "-" -> 45
      [] c = "." -> 46
      [] c = ":" -> 58
      [] c = "_" -> 95

RECURSIVE b64encode(_)
b64encode(s) ==
    IF s = "" THEN ""
    ELSE LET n  == Len(s)
             b1 == ord(SubSeq(s, 1, 1))
             b2 == IF n >= 2 THEN ord(SubSeq(s, 2, 2)) ELSE 0
             b3 == IF n >= 3 THEN ord(SubSeq(s, 3, 3)) ELSE 0
             v  == b1 * 65536 + b2 * 256 + b3
             ch(k) == SubSeq(B64Alphabet, k + 1, k + 1)
         IN  ch(v \div 262144) \o ch((v \div 4096) % 64)
             \o (IF n >= 2 THEN ch((v \div 64) % 64) ELSE "=")
             \o (IF n >= 3 THEN ch(v % 64) ELSE "=")
             \o (IF n > 3 THEN b64encode(SubSeq(s, 4, n)) ELSE "")

---------------------------------------------------------------------------
(* The server and the transport (external collaborators) *)

Resource(i, j) == [resourceType |-> "Patient", id |-> ToString(i) \o "-" \o ToString(j)]

\* the entries of page i: two on odd pages, one on even pages
PageEntries(i) ==
    IF i % 2 = 1
    THEN <<[resource |-> Resource(i, 1)], [resource |-> Resource(i, 2)]>>
    ELSE <<[resource |-> Resource(i, 1)]>>

PageUrl(i) == "https://srv/fhir/Patient?page=" \o ToString(i)

\* page i of a chain of m pages: a next link on every page but the last, whose
\* link array holds a self link only or, in a chain of one page, is absent;
\* the entry field may be absent
PageJson(i, m, hasEntry) ==
    [resourceType |-> "Bundle", type |-> "searchset"]
    @@ (IF hasEntry THEN "entry" :> PageEntries(i) ELSE EmptyDict)
    @@ (IF i < m
        THEN "link" :> <<[relation |-> "self", url |-> PageUrl(i)],
                         [relation |-> "next", url |-> PageUrl(i + 1)]>>
        ELSE IF m > 1
        THEN "link" :> <<[relation |-> "self", url |-> PageUrl(i)]>>
        ELSE EmptyDict)

\* the page a URL addresses: a page URL its page, anything else the first page
PageIndexOf(url) ==
    IF \E i \in 2..(MaxPages + 2) : url = PageUrl(i)
    THEN CHOOSE i \in 2..(MaxPages + 2) : url = PageUrl(i)
    ELSE 1

\* what the transport does with one FHIR request; next = 0 leaves the links of
\* the chain as they are
FhirOutcomes ==
    [status : {"ok", "fail"}, m : 1..MaxPages, hasEntry : BOOLEAN, next : {0}]

\* the pages a next link of any shape can address
LinkTargets == 1..2

\* responses whose next link points wherever the server likes: onward, to the
\* page itself or back to an earlier page
LinkedOutcomes ==
    [status : {"ok", "fail"}, m : {2}, hasEntry : BOOLEAN, next : {0} \cup LinkTargets]

\* the body answered for page i: the page of the chain, or that page with its
\* next link set to the page o.next
ServedPage(i, m, o) ==
    IF o.next = 0 THEN PageJson(i, m, o.hasEntry)
    ELSE [k \in DOMAIN PageJson(i, m, o.hasEntry) \cup {"link"} |->
            IF k = "link"
            THEN <<[relation |-> "self", url |-> PageUrl(i)],
                   [relation |-> "next", url |-> PageUrl(o.next)]>>
            ELSE PageJson(i, m, o.hasEntry)[k]]

\* what the login endpoint answers: a status and a body with its content type
LoginOutcomes ==
    {[status |-> "ok", ctype |-> "text", text |-> "tok1"],
     [status |-> "ok", ctype |-> "json", text |-> "\"tok2\""],
     [status |-> "fail", ctype |-> "text", text |-> ""]}

\* a URL the transport accepts has a scheme
valid_url(url) == Len(url) >= 4 /\ SubSeq(url, 1, 4) = "http"

---------------------------------------------------------------------------
(* FhirClientBase, FhirQueryClient and AsyncFhirQueryClient: construction and auth *)

Variants == {"sync", "async"}
BaseUrls == {"https://srv/fhir", "https://srv/fhir/"}
LoginUrl == "https://srv/login"
ClientHeaders == {Some("Accept" :> "application/fhir+json")}

AuthConfig(method, login_url, username, password, token) ==
    [auth_method |-> method, login_url |-> login_url, username |-> username,
     password |-> password, token |-> token]

AuthConfigs ==
    {AuthConfig(None, None, None, None, None),
     AuthConfig(Some("login"), Some(LoginUrl), Some("user"), Some("pass"), None)}

ClientConfigs ==
    [variant : Variants, base_url : BaseUrls, use_post : BOOLEAN,
     headers : ClientHeaders, auth : AuthConfigs]

\* FhirClientBase.__init__ keeping the base URL as it was given
FhirClientBase_init_as_given(cfg) ==
    [variant |-> cfg.variant,
     base_url |-> cfg.base_url,
     auth_method |-> cfg.auth.auth_method,
     login_url |-> cfg.auth.login_url,
     username |-> cfg.auth.username,
     password |-> cfg.auth.password,
     token |-> cfg.auth.token,
     _headers |-> OrEmpty(cfg.headers),
     session_headers |-> EmptyDict,
     use_post |-> FALSE,
     _pending_login_auth |-> FALSE]

\* FhirClientBase.__init__ up to the call of _setup_auth
FhirClientBase_init(cfg) ==
    [variant |-> cfg.variant,
     base_url |-> IF endswith(cfg.base_url, "/") THEN cfg.base_url ELSE cfg.base_url \o "/",
     auth_method |-> cfg.auth.auth_method,
     login_url |-> cfg.auth.login_url,
     username |-> cfg.auth.username,
     password |-> cfg.auth.password,
     token |-> cfg.auth.token,
     _headers |-> OrEmpty(cfg.headers),
     session_headers |-> EmptyDict,
     use_post |-> FALSE,
     _pending_login_auth |-> FALSE]

\* the client before it is constructed
NoClient ==
    [variant |-> "", base_url |-> "", auth_method |-> None, login_url |-> None,
     username |-> None, password |-> None, token |-> None, _headers |-> EmptyDict,
     session_headers |-> EmptyDict, use_post |-> FALSE, _pending_login_auth |-> FALSE]

\* _get_headers: the session's headers in the synchronous client, the
\* client's own in the asynchronous one
_get_headers(c) == IF c.variant = "sync" THEN c.session_headers ELSE c._headers

\* self._get_headers()["Authorization"] = value: the session's headers in the
\* synchronous client, the client's own headers in the asynchronous one
set_authorization(c, value) ==
    IF c.variant = "sync"
    THEN [c EXCEPT !.session_headers = DictPut(@, "Authorization", value)]
    ELSE [c EXCEPT !._headers = DictPut(@, "Authorization", value)]

\* _setup_basic_auth without the base64 encoding
_setup_basic_auth_plain(c, username, password) ==
    set_authorization(c, "Basic " \o username \o ":" \o password)

_setup_basic_auth(c, username, password) ==
    set_authorization(c, "Basic " \o b64encode(username \o ":" \o password))

_setup_token_auth(c, token) == set_authorization(c, "Bearer " \o token)

\* json.loads of a JSON string literal without escapes
json_loads(text) == SubSeq(text, 2, Len(text) - 1)

\* the token taken from the login response: its text in the synchronous client;
\* in the asynchronous one the parsed JSON, or the text when the body is not JSON
login_token(variant, o) ==
    IF variant = "async" /\ o.ctype = "json" THEN json_loads(o.text) ELSE o.text

\* _setup_login_auth installing the response body as token before it looks at
\* the status
_setup_login_auth_token_first(c, login_url, o) ==
    IF ~TruthyStr(c.username) \/ ~TruthyStr(c.password)
    THEN [raised |-> "ValueError", client |-> c, log |-> << >>]
    ELSE IF ~TruthyStr(login_url) /\ ~TruthyStr(c.login_url)
    THEN [raised |-> "ValueError", client |-> c, log |-> << >>]
    ELSE LET url == IF TruthyStr(login_url) THEN Val(login_url) ELSE Val(c.login_url)
             x == [kind |-> "login", method |-> "GET", url |-> url, data |-> None,
                   headers |-> Some(c._headers),
                   auth |-> Some(<<Val(c.username), Val(c.password)>>),
                   status |-> o.status, text |-> o.text, ctype |-> o.ctype]
         IN  [raised |-> IF o.status # "ok" THEN "HTTPError" ELSE "",
              client |-> _setup_token_auth([c EXCEPT !.token = Some(login_token(c.variant, o))],
                                           login_token(c.variant, o)),
              log |-> <<x>>]

\* _setup_login_auth of FhirQueryClient / AsyncFhirQueryClient: the exception
\* raised ("" if none), the client afterwards and the exchange made
_setup_login_auth(c, login_url, o) ==
    IF ~TruthyStr(c.username) \/ ~TruthyStr(c.password)
    THEN [raised |-> "ValueError", client |-> c, log |-> << >>]
    ELSE IF ~TruthyStr(login_url) /\ ~TruthyStr(c.login_url)
    THEN [raised |-> "ValueError", client |-> c, log |-> << >>]
    ELSE LET url == IF TruthyStr(login_url) THEN Val(login_url) ELSE Val(c.login_url)
             x == [kind |-> "login", method |-> "GET", url |-> url, data |-> None,
                   headers |-> Some(c._headers),
                   auth |-> Some(<<Val(c.username), Val(c.password)>>),
                   status |-> o.status, text |-> o.text, ctype |-> o.ctype]
         IN  IF o.status # "ok"
             THEN [raised |-> "HTTPError", client |-> c, log |-> <<x>>]
             ELSE [raised |-> "",
                   client |-> _setup_token_auth([c EXCEPT !.token = Some(login_token(c.variant, o))],
                                                login_token(c.variant, o)),
                   log |-> <<x>>]

\* FhirClientBase._setup_auth; in the asynchronous client _setup_login_auth is
\* a coroutine function, and the coroutine this call creates is never awaited
_setup_auth(c, o) ==
    IF c.auth_method = Some("basic") /\ TruthyStr(c.username) /\ TruthyStr(c.password)
    THEN [raised |-> "", client |-> _setup_basic_auth(c, Val(c.username), Val(c.password)), log |-> << >>]
    ELSE IF c.auth_method = Some("token") /\ TruthyStr(c.token)
    THEN [raised |-> "", client |-> _setup_token_auth(c, Val(c.token)), log |-> << >>]
    ELSE IF c.auth_method = Some("login") /\ TruthyStr(c.login_url) /\ c.variant = "sync"
    THEN _setup_login_auth(c, c.login_url, o)
    ELSE [raised |-> "", client |-> c, log |-> << >>]

\* FhirQueryClient.__init__ / AsyncFhirQueryClient.__init__
new_client(cfg, o) ==
    LET a  == _setup_auth(FhirClientBase_init(cfg), o)
        c1 == [a.client EXCEPT
                 !.use_post = cfg.use_post,
                 !.session_headers = IF cfg.variant = "sync" THEN DictMerge(@, a.client._headers) ELSE @,
                 !._pending_login_auth = (a.client.auth_method = Some("login"))]
    IN  [raised |-> a.raised, client |-> IF a.raised = "" THEN c1 ELSE a.client, log |-> a.log]

---------------------------------------------------------------------------
(* get: its arguments *)

FullUrlFalse == [tag |-> "bool", b |-> FALSE, s |-> ""]
FullUrlTrue == [tag |-> "bool", b |-> TRUE, s |-> ""]
FullUrlStr(u) == [tag |-> "str", b |-> FALSE, s |-> u]

ParamsArgs == {None, Some(<< >>), Some(<< <<"name", "John Smith">>, <<"_count", "1">> >>)}
SearchStrings == {None, Some(""), Some("name=Smith&_count=1")}
FullUrls == {FullUrlFalse, FullUrlTrue, FullUrlStr("https://srv/fhir/Patient?_id=7")}
PagesArgs == {None} \cup {Some(k) : k \in 1..(MaxPages + 1)}
HeaderArgs == {None, Some("X-Request-Id" :> "r1")}

CallArgs ==
    [resource_type : {"Patient"}, params : ParamsArgs, full_url : FullUrls,
     search_string : SearchStrings, use_post : BOOLEAN, pages : PagesArgs,
     headers : HeaderArgs]

NoCall ==
    [resource_type |-> "", params |-> None, full_url |-> FullUrlFalse,
     search_string |-> None, use_post |-> FALSE, pages |-> None, headers |-> None]

NoOp == [op |-> "", before |-> NoBundle, other |-> NoBundle, raised |-> ""]

\* bool(full_url), full_url is True, and the value handed to the transport as url
full_url_truthy(f) == IF f.tag = "bool" THEN f.b ELSE f.s # ""
full_url_is_True(f) == f.tag = "bool" /\ f.b
full_url_value(f) == IF f.tag = "bool" THEN (IF f.b THEN "True" ELSE "False") ELSE f.s

---------------------------------------------------------------------------
(* make_request and _get *)

\* make_request without its response.raise_for_status() line
raise_for_status_skipped(status) == FALSE

\* response.raise_for_status(): whether it raises
raise_for_status(status) == status # "ok"

\* make_request: the exception raised ("" if none), the exchange as logged and
\* the JSON returned
make_request(method, url, data, headers, status, body) ==
    LET x == [kind |-> "fhir", method |-> method, url |-> url, data |-> data,
              headers |-> headers, auth |-> None,
              status |-> IF valid_url(url) THEN status ELSE "invalid"]
    IN  IF ~valid_url(url) THEN [raised |-> "InvalidURL", x |-> x, json |-> NoBundle]
        ELSE IF raise_for_status(status) THEN [raised |-> "HTTPError", x |-> x, json |-> NoBundle]
        ELSE [raised |-> "", x |-> x, json |-> body]

\* the headers a request goes out with: session.request merges the session's
\* headers with the headers argument in the synchronous client; the
\* asynchronous client opens a fresh session and sends the headers argument
wire_headers(c, headers) ==
    IF c.variant = "sync" THEN DictMerge(c.session_headers, OrEmpty(headers))
    ELSE OrEmpty(headers)

provided_options(a) ==
    (IF ~IsNone(a.params) THEN 1 ELSE 0)
    + (IF ~IsNone(a.search_string) THEN 1 ELSE 0)
    + (IF full_url_is_True(a.full_url) THEN 1 ELSE 0)

\* the headers _get passes with the first request: the caller's in the
\* synchronous client, {**self._headers, **(headers or {})} in the asynchronous one
request_headers(c, a) ==
    IF c.variant = "sync" THEN a.headers
    ELSE Some(DictMerge(c._headers, OrEmpty(a.headers)))

\* a follow-up request made without a headers argument in either client
followup_headers_absent(c, a) == None

\* the headers _get passes with a follow-up request
followup_headers(c, a) ==
    IF c.variant = "sync" THEN None ELSE request_headers(c, a)

search_params(a) ==
    IF TruthySeq(a.params) THEN Some(urlencode(Val(a.params)))
    ELSE IF TruthyStr(a.search_string) THEN a.search_string
    ELSE None

\* the body of a POST search
post_data(c, a) ==
    IF c.variant = "sync" THEN Some(json_dumps(search_params(a)))
    ELSE IF TruthyStr(search_params(a)) THEN Some(json_dumps(search_params(a)))
    ELSE None

get_url(c, a) ==
    IF TruthyStr(search_params(a))
    THEN urljoin(c.base_url, a.resource_type) \o "?" \o Val(search_params(a))
    ELSE urljoin(c.base_url, a.resource_type)

\* the first request of _get
first_request(c, a, status, body) ==
    IF full_url_truthy(a.full_url)
    THEN make_request("GET", full_url_value(a.full_url), None, request_headers(c, a), status, body)
    ELSE IF a.use_post \/ c.use_post
    THEN make_request("POST", urljoin(c.base_url, a.resource_type \o "/_search"),
                      post_data(c, a), request_headers(c, a), status, body)
    ELSE make_request("GET", get_url(c, a), None, request_headers(c, a), status, body)

\* what the caller sees of a step of get
Outcome(p, e, x, sv, m, b, rem, ret) ==
    [pc |-> p, err |-> e, log |-> x, served |-> sv, chainLen |-> m, fqc_bundle |-> b,
     remaining_pages |-> rem, returned |-> ret]

\* _get entering the pagination loop with pages follow-up requests to go
_get_first_pages_to_go(c, a, o) ==
    IF provided_options(a) > 1
    THEN Outcome("raised", "AssertionError", << >>, << >>, 0, NoBundle, 0, None)
    ELSE LET r == first_request(c, a, o.status, ServedPage(1, o.m, o))
         IN  IF r.raised # ""
             THEN Outcome("raised", r.raised, <<r.x>>, << >>, 0, NoBundle, 0, None)
             ELSE IF full_url_truthy(a.full_url)
             THEN Outcome("done", "", <<r.x>>, <<r.json>>, o.m, r.json, 0, Some(r.json))
             ELSE Outcome("paging", "", <<r.x>>, <<r.json>>, o.m, r.json,
                          IF TruthyInt(a.pages) /\ Val(a.pages) > 1 THEN Val(a.pages) ELSE 0,
                          None)

\* _get from its entry to the start of the pagination loop
_get_first(c, a, o) ==
    IF provided_options(a) > 1
    THEN Outcome("raised", "AssertionError", << >>, << >>, 0, NoBundle, 0, None)
    ELSE LET r == first_request(c, a, o.status, ServedPage(1, o.m, o))
         IN  IF r.raised # ""
             THEN Outcome("raised", r.raised, <<r.x>>, << >>, 0, NoBundle, 0, None)
             ELSE IF full_url_truthy(a.full_url)
             THEN Outcome("done", "", <<r.x>>, <<r.json>>, o.m, r.json, 0, Some(r.json))
             ELSE Outcome("paging", "", <<r.x>>, <<r.json>>, o.m, r.json,
                          IF TruthyInt(a.pages) /\ Val(a.pages) > 1 THEN Val(a.pages) - 1 ELSE 0,
                          None)

\* one pass of _get's pagination loop, or its exit and the return
_get_page(c, a, m, bundle, rem, o) ==
    IF rem > 0 /\ TruthyStr(get_next_link(bundle))
    THEN LET url == Val(get_next_link(bundle))
             r == make_request("GET", url, None, followup_headers(c, a), o.status,
                               ServedPage(PageIndexOf(url), m, o))
             ab == add_bundle(bundle, r.json)
         IN  IF r.raised # ""
             THEN Outcome("raised", r.raised, <<r.x>>, << >>, m, bundle, rem, None)
             ELSE IF ab.raised # ""
             THEN Outcome("raised", ab.raised, <<r.x>>, <<r.json>>, m, bundle, rem, None)
             ELSE Outcome("paging", "", <<r.x>>, <<r.json>>, m, ab.data, rem - 1, None)
    ELSE Outcome("done", "", << >>, << >>, m, bundle, rem, Some(bundle))

---------------------------------------------------------------------------
(* The state machine *)

Init ==
    /\ pc = "new"
    /\ client = NoClient
    /\ call = NoCall
    /\ log = << >>
    /\ served = << >>
    /\ chainLen = 0
    /\ fqc_bundle = NoBundle
    /\ remaining_pages = 0
    /\ err = ""
    /\ returned = None
    /\ lastOp = NoOp
    /\ logins = 0

\* FhirQueryClient(...) / AsyncFhirQueryClient(...)
Construct(cfg, o) ==
    /\ pc = "new"
    /\ LET r == new_client(cfg, o)
       IN  /\ client' = IF r.raised = "" THEN r.client ELSE NoClient
           /\ log' = r.log
           /\ err' = r.raised
           /\ pc' = IF r.raised = "" THEN "idle" ELSE "ctor_failed"
    /\ call' = NoCall
    /\ served' = << >>
    /\ chainLen' = 0
    /\ fqc_bundle' = NoBundle
    /\ remaining_pages' = 0
    /\ returned' = None
    /\ lastOp' = NoOp
    /\ logins' = Len(new_client(cfg, o).log)

\* client.get(...) is entered
get(a) ==
    /\ pc = "idle"
    /\ pc' = "ensure_auth"
    /\ call' = a
    /\ log' = << >>
    /\ served' = << >>
    /\ chainLen' = 0
    /\ fqc_bundle' = NoBundle
    /\ remaining_pages' = 0
    /\ err' = ""
    /\ returned' = None
    /\ UNCHANGED <<client, lastOp, logins>>

\* ensure_auth
ensure_auth(o) ==
    /\ pc = "ensure_auth"
    /\ IF client._pending_login_auth /\ TruthyStr(client.login_url)
       THEN LET r == _setup_login_auth(client, client.login_url, o)
            IN  /\ logins + Len(r.log) <= MaxLogins
                /\ logins' = logins + Len(r.log)
                /\ log' = log \o r.log
                /\ err' = r.raised
                /\ pc' = IF r.raised = "" THEN "_get" ELSE "raised"
                /\ client' = IF r.raised = ""
                             THEN [r.client EXCEPT !._pending_login_auth = FALSE]
                             ELSE r.client
       ELSE /\ pc' = "_get"
            /\ UNCHANGED <<client, log, err, logins>>
    /\ UNCHANGED <<call, served, chainLen, fqc_bundle, remaining_pages, returned, lastOp>>

Step(r) ==
    /\ pc' = r.pc
    /\ err' = r.err
    /\ log' = log \o r.log
    /\ served' = served \o r.served
    /\ chainLen' = r.chainLen
    /\ fqc_bundle' = r.fqc_bundle
    /\ remaining_pages' = r.remaining_pages
    /\ returned' = r.returned
    /\ UNCHANGED <<client, call, lastOp, logins>>

\* _get: validation and the first request
_get(o) ==
    /\ pc = "_get"
    /\ Step(_get_first(client, call, o))

\* _get: the pagination loop and the return
_get_loop(o) ==
    /\ pc = "paging"
    /\ Step(_get_page(client, call, chainLen, fqc_bundle, remaining_pages, o))

\* the caller is done with the outcome of a get; the client lives on
Release ==
    /\ pc \in {"done", "raised", "setup_done"}
    /\ pc' = "idle"
    /\ call' = NoCall
    /\ log' = << >>
    /\ served' = << >>
    /\ chainLen' = 0
    /\ fqc_bundle' = NoBundle
    /\ remaining_pages' = 0
    /\ err' = ""
    /\ returned' = None
    /\ UNCHANGED <<client, lastOp, logins>>

\* resources of the test fixtures: patients with names, a resource whose type
\* has no default projection and which carries no id
Patient1 ==
    [resourceType |-> "Patient", id |-> "patient-1",
     name |-> <<[given |-> <<"John", "Jack">>, family |-> "Doe"]>>,
     birthDate |-> "1970-01-01"]
Patient2 ==
    [resourceType |-> "Patient", id |-> "patient-2",
     name |-> <<[given |-> <<"Jane">>, family |-> "Smith"]>>]
Outcome1 == [resourceType |-> "OperationOutcome"]

\* the bundles of the test fixtures
patient_bundle ==
    [resourceType |-> "Bundle", type |-> "searchset", total |-> 2,
     entry |-> <<[resource |-> Patient1], [resource |-> Patient2]>>]
properties_bundle ==
    [resourceType |-> "Bundle", type |-> "searchset", total |-> 100,
     link |-> <<[relation |-> "next", url |-> "http://example.com/next"],
                [relation |-> "previous", url |-> "http://example.com/prev"],
                [relation |-> "next", url |-> "http://example.com/next2"]>>,
     entry |-> <<[resource |-> Resource(1, 1)]>>]
outcome_bundle ==
    [resourceType |-> "Bundle", type |-> "searchset", link |-> << >>,
     entry |-> <<[resource |-> Outcome1]>>]

\* bundle JSONs a caller may wrap or add
BundleJsons ==
    {PageJson(1, m, he) : m \in 1..2, he \in BOOLEAN}
    \cup {PageJson(2, 2, he) : he \in BOOLEAN}
    \cup {[resourceType |-> "Bundle", entry |-> << >>]}
    \cup {patient_bundle, properties_bundle, outcome_bundle}

\* FhirQueryBundle(json)
NewBundle(json) ==
    /\ pc \in {"new", "bundle"}
    /\ pc' = "bundle"
    /\ fqc_bundle' = json
    /\ lastOp' = NoOp
    /\ err' = ""
    /\ UNCHANGED <<client, call, log, served, chainLen, remaining_pages, returned, logins>>

\* bundle.add_bundle(other)
AddBundle(other) ==
    /\ pc = "bundle"
    /\ size(fqc_bundle) + size(other) <= MaxEntries
    /\ LET r == add_bundle(fqc_bundle, other)
       IN  /\ fqc_bundle' = r.data
           /\ err' = r.raised
           /\ lastOp' = [op |-> "add_bundle", before |-> fqc_bundle, other |-> other,
                         raised |-> r.raised, after |-> r.other]
    /\ UNCHANGED <<pc, client, call, log, served, chainLen, remaining_pages, returned, logins>>

\* a read-only operation of the bundle: its outcome is what the caller sees
Accessor(name, r) ==
    /\ pc = "bundle"
    /\ lastOp' = [op |-> name, before |-> fqc_bundle, other |-> NoBundle,
                  raised |-> r.raised, result |-> r.value]
    /\ err' = r.raised
    /\ UNCHANGED <<pc, client, call, log, served, chainLen, fqc_bundle, remaining_pages, returned, logins>>

\* bundle.resource
GetResource == Accessor("resource", resource(fqc_bundle))

\* bundle.size, len(bundle) and bundle.collect_ids()
CollectIds ==
    Accessor("collect_ids",
             [raised |-> collect_ids(fqc_bundle).raised,
              value |-> [size |-> size(fqc_bundle), len |-> __len__(fqc_bundle),
                         ids |-> collect_ids(fqc_bundle).value]])

\* an accessor taking an argument
AccessorOf(name, arg, r) ==
    /\ pc = "bundle"
    /\ lastOp' = [op |-> name, before |-> fqc_bundle, other |-> NoBundle,
                  raised |-> r.raised, result |-> r.value, arg |-> arg]
    /\ err' = r.raised
    /\ UNCHANGED <<pc, client, call, log, served, chainLen, fqc_bundle, remaining_pages, returned, logins>>

\* resources a caller may look for
Items == {Patient1, Patient2, Resource(1, 1), Resource(2, 1), Outcome1}

\* indices a caller may use
Indices == -2..MaxEntries

\* [r for r in bundle] and bool(bundle)
Iterate ==
    Accessor("iter", [raised |-> "",
                      value |-> [iter |-> __iter__(fqc_bundle), bool |-> __bool__(fqc_bundle)]])

\* item in bundle
Contains(item) ==
    AccessorOf("contains", item, [raised |-> "", value |-> __contains__(fqc_bundle, item)])

\* bundle[index]
GetItem(index) == AccessorOf("getitem", [index |-> index], __getitem__(fqc_bundle, index))

\* bundle == other, other being the bundle itself or a second FhirQueryBundle
\* made from json
Compare(json, same) ==
    LET self  == BundleObject(1, fqc_bundle)
        other == IF same THEN self ELSE BundleObject(2, json)
    IN  AccessorOf("eq", other, [raised |-> "", value |-> __eq__(self, other)])

\* Projection Specs a caller may supply (utils_test.py, bundle_test.py)
ProjectionSpecs ==
    {<< <<"id", "id">>, <<"given_name", "name[0].given[0]">>, <<"family_name", "name[0].family">> >>,
     << <<"id", "id">>, <<"family_name", "name[0].family">>, <<"birth_date", "birthDate">> >>,
     << <<"given", "name.given">>, <<"id", "id">>, <<"gender", "gender">> >>}

ColumnsArgs == {None} \cup {Some(c) : c \in ProjectionSpecs}

\* bundle.to_df(columns)
ToDf(columns) == AccessorOf("to_df", columns, to_df(fqc_bundle, columns))

Relations == {"next", "previous", "self"}

\* get_link(bundle.data, relation), bundle.next_link and bundle.previous_link
GetLink(relation) ==
    AccessorOf("get_link", [relation |-> relation],
               [raised |-> "",
                value |-> [get_link |-> get_link(fqc_bundle, relation),
                           next_link |-> get_next_link(fqc_bundle),
                           previous_link |-> get_previous_link(fqc_bundle)]])

Next ==
    \/ \E cfg \in ClientConfigs, o \in LoginOutcomes : Construct(cfg, o)
    \/ \E a \in CallArgs : get(a)
    \/ \E o \in LoginOutcomes : ensure_auth(o)
    \/ \E o \in FhirOutcomes : _get(o)
    \/ \E o \in FhirOutcomes : _get_loop(o)
    \/ Release
    \/ \E json \in BundleJsons : NewBundle(json)
    \/ \E other \in BundleJsons : AddBundle(other)

Spec == Init /\ [][Next]_vars

\* a caller that works with bundles only
BundleNext ==
    \/ \E json \in BundleJsons : NewBundle(json)
    \/ \E other \in BundleJsons : AddBundle(other)
    \/ GetResource
    \/ CollectIds
    \/ Iterate
    \/ \E item \in Items : Contains(item)
    \/ \E index \in Indices : GetItem(index)
    \/ \E json \in BundleJsons, same \in BOOLEAN : Compare(json, same)
    \/ \E columns \in ColumnsArgs : ToDf(columns)
    \/ \E relation \in Relations : GetLink(relation)

BundleSpec == Init /\ [][BundleNext]_vars

\* login mode configured completely and with one of login URL, username and
\* password left out (the environment sets none of them), and no auth
LoginAuthConfigs ==
    {AuthConfig(None, None, None, None, None),
     AuthConfig(Some("login"), Some(LoginUrl), Some("user"), Some("pass"), None),
     AuthConfig(Some("login"), None, Some("user"), Some("pass"), None),
     AuthConfig(Some("login"), Some(LoginUrl), None, Some("pass"), None),
     AuthConfig(Some("login"), Some(LoginUrl), Some("user"), None, None)}

\* basic mode with and without its credentials
BasicAuthConfigs ==
    {AuthConfig(Some("basic"), None, Some("user"), Some("pass"), None),
     AuthConfig(Some("basic"), None, None, Some("pass"), None),
     AuthConfig(Some("basic"), None, Some("user"), None, None)}

\* token mode with and without its token
TokenAuthConfigs ==
    {AuthConfig(Some("token"), None, None, None, Some("my-test-token")),
     AuthConfig(Some("token"), None, None, None, None)}

AuthClientConfigs ==
    [variant : Variants, base_url : {"https://srv/fhir"}, use_post : {FALSE},
     headers : ClientHeaders,
     auth : LoginAuthConfigs \cup BasicAuthConfigs \cup TokenAuthConfigs]

AuthCallArgs ==
    [resource_type : {"Patient"}, params : {None}, full_url : {FullUrlFalse},
     search_string : {None, Some("name=Smith&_count=1")}, use_post : {FALSE},
     pages : {None, Some(2)},
     headers : HeaderArgs \cup {Some("Authorization" :> "Bearer per-call")}]

\* client._setup_login_auth(login_url) called by the caller itself
SetupLoginAuth(login_url, o) ==
    /\ pc = "idle"
    /\ LET r == _setup_login_auth(client, login_url, o)
       IN  /\ logins + Len(r.log) <= MaxLogins
           /\ logins' = logins + Len(r.log)
           /\ log' = r.log
           /\ err' = r.raised
           /\ pc' = IF r.raised = "" THEN "setup_done" ELSE "raised"
           /\ client' = r.client
           /\ lastOp' = [op |-> "_setup_login_auth", before |-> NoBundle, other |-> NoBundle,
                         raised |-> r.raised, arg |-> login_url]
    /\ call' = NoCall
    /\ served' = << >>
    /\ chainLen' = 0
    /\ fqc_bundle' = NoBundle
    /\ remaining_pages' = 0
    /\ returned' = None

\* a caller that works with clients in login mode
AuthNext ==
    \/ \E cfg \in AuthClientConfigs, o \in LoginOutcomes : Construct(cfg, o)
    \/ \E a \in AuthCallArgs : get(a)
    \/ \E o \in LoginOutcomes : ensure_auth(o)
    \/ \E o \in FhirOutcomes : _get(o)
    \/ \E o \in FhirOutcomes : _get_loop(o)
    \/ Release
    \/ \E login_url \in {None, Some(LoginUrl)}, o \in LoginOutcomes : SetupLoginAuth(login_url, o)

AuthSpec == Init /\ [][AuthNext]_vars

\* clients without authentication, one per variant
PagingClientConfigs ==
    [variant : Variants, base_url : {"https://srv/fhir/"}, use_post : {FALSE},
     headers : ClientHeaders, auth : {AuthConfig(None, None, None, None, None)}]

\* pages absent, negative, zero and positive
PagingPagesArgs == {None, Some(-1), Some(0)} \cup {Some(k) : k \in 1..MaxPages}

PagingCallArgs ==
    [resource_type : {"Patient"}, params : {None}, full_url : {FullUrlFalse},
     search_string : {None}, use_post : {FALSE}, pages : PagingPagesArgs,
     headers : {None}]

\* a caller that pages through whatever links the server returns
PagingNext ==
    \/ \E cfg \in PagingClientConfigs, o \in LoginOutcomes : Construct(cfg, o)
    \/ \E a \in PagingCallArgs : get(a)
    \/ \E o \in LoginOutcomes : ensure_auth(o)
    \/ \E o \in LinkedOutcomes : _get(o)
    \/ \E o \in LinkedOutcomes : _get_loop(o)
    \/ Release

\* every transport exchange completes: a get that has been entered keeps going
PagingSpec ==
    /\ Init /\ [][PagingNext]_vars
    /\ WF_vars(\E o \in LoginOutcomes : ensure_auth(o))
    /\ WF_vars(\E o \in LinkedOutcomes : _get(o))
    /\ WF_vars(\E o \in LinkedOutcomes : _get_loop(o))

-----------------------------------------------------------(* merge_url_with_path called on its own *)

\* the sequences over S of length lo..hi
SeqsOf(S, lo, hi) == UNION {[1..n -> S] : n \in lo..hi}

UrlSegments == {"fhir", "r4"}
PathSegments == {"fhir", "r4", "r4x", "Patient"}

\* base urls of up to MaxSegments path segments, with and without a trailing slash
MergeUrls ==
    {"https://srv" \o (IF Len(q) = 0 THEN "" ELSE "/" \o join(q)) \o t :
        q \in SeqsOf(UrlSegments, 0, MaxSegments), t \in {"", "/"}}

\* paths of up to MaxSegments segments, with and without a leading slash
MergePaths ==
    {h \o join(q) : q \in SeqsOf(PathSegments, 1, MaxSegments), h \in {"", "/"}}

\* merge_url_with_path(url, path)
MergeUrlWithPath(url, path) ==
    /\ pc = "new"
    /\ pc' = "merge"
    /\ lastOp' = [op |-> "merge_url_with_path", before |-> NoBundle, other |-> NoBundle,
                  raised |-> "", url |-> url, path |-> path,
                  result |-> merge_url_with_path(url, path)]
    /\ UNCHANGED <<client, call, log, served, chainLen, fqc_bundle, remaining_pages,
                   err, returned, logins>>

MergeNext == \E url \in MergeUrls, path \in MergePaths : MergeUrlWithPath(url, path)

MergeSpec == Init /\ [][MergeNext]_vars

----------------
(* Properties *)

IsFhir(x) == x.kind = "fhir"
\* the FHIR requests of the call, in order
FhirLog == SelectSeq(log, IsFhir)

\* the call was made with a pages argument k >= 1
HasPages == ~IsNone(call.pages) /\ Val(call.pages) >= 1
\* the call was made without full_url
NoFullUrl == call.full_url = FullUrlFalse

RECURSIVE ConcatEntries(_)
\* the raw entry arrays of a sequence of bundle JSONs, concatenated
ConcatEntries(jsons) ==
    IF Len(jsons) = 0 THEN << >>
    ELSE (IF "entry" \in DOMAIN jsons[1] THEN jsons[1].entry ELSE << >>)
         \o ConcatEntries(Tail(jsons))

\* the resources of a sequence of entries
ResourcesOf(entries) == [i \in 1..Len(entries) |-> entries[i].resource]

\* how many of params, search_string and full_url the call supplies: params
\* and search_string when not None, full_url when the flag True or a URL
Supplied(a) ==
    (IF ~IsNone(a.params) THEN 1 ELSE 0)
    + (IF ~IsNone(a.search_string) THEN 1 ELSE 0)
    + (IF a.full_url # FullUrlFalse THEN 1 ELSE 0)

\* get failed in ensure_auth, before _get was entered
FailedInEnsureAuth == pc = "raised" /\ err \in {"HTTPError", "ValueError"} /\ FhirLog = << >>

\* C1: a get with pages = k >= 1 (and no full_url) that returns has issued
\* exactly min(k, m) transport requests against a chain of m linked pages, so
\* it stopped following links at the page without a next link.
C1_RequestsAreMinOfPagesAndChain ==
    (pc = "done" /\ HasPages /\ NoFullUrl)
        => Len(FhirLog) = MinOf(Val(call.pages), chainLen)

\* C2: the bundle a get with pages = k >= 1 (and no full_url) returns holds
\* the entries of the pages P1 .. P_min(k,m), each once, in order.
C2_ResultIsConcatenationOfPages ==
    (pc = "done" /\ HasPages /\ NoFullUrl)
        => /\ Len(served) = MinOf(Val(call.pages), chainLen)
           /\ get_resources_from_bundle(Val(returned)) = ResourcesOf(ConcatEntries(served))

\* C3: a get that supplies more than one of params, search_string and full_url
\* (the flag True or a URL string) fails with AssertionError.
C3_AmbiguousQueryAlwaysFails ==
    (pc \in {"paging", "done", "raised"} /\ Supplied(call) > 1 /\ ~FailedInEnsureAuth)
        => (pc = "raised" /\ err = "AssertionError")

\* C4: a get that fails with AssertionError has made no network exchange,
\* neither a FHIR request nor a login exchange.
C4_AmbiguousFailureBeforeAnyExchange ==
    (pc = "raised" /\ err = "AssertionError") => log = << >>

\* C5: a get with full_url first issues a GET to exactly that URL, and with
\* pages = k > 1 goes on to follow next links, merging min(k, m) pages.
C5_FullUrlThenPagination ==
    (pc = "done" /\ call.full_url.tag = "str" /\ call.full_url.s # "")
        => /\ FhirLog[1].method = "GET"
           /\ FhirLog[1].url = call.full_url.s
           /\ (~IsNone(call.pages) /\ Val(call.pages) > 1)
                => Len(FhirLog) = MinOf(Val(call.pages), chainLen)

\* the query string Q of C6: urlencode(params), or search_string, or empty
C6_Q ==
    IF ~IsNone(call.params) THEN urlencode(Val(call.params))
    ELSE IF ~IsNone(call.search_string) THEN Val(call.search_string)
    ELSE ""

\* C6: without full_url the first request is, with use_post set on the call or
\* the client, a POST to base_url + resourceType + "/_search" whose body is the
\* JSON string encoding of Q, and otherwise a GET to base_url + resourceType,
\* followed by "?" + Q if and only if Q is not empty.
C6_FirstRequestShape ==
    (FhirLog # << >> /\ NoFullUrl)
        => IF call.use_post \/ client.use_post
           THEN /\ FhirLog[1].method = "POST"
                /\ FhirLog[1].url = client.base_url \o call.resource_type \o "/_search"
                /\ FhirLog[1].data = Some("\"" \o C6_Q \o "\"")
           ELSE /\ FhirLog[1].method = "GET"
                /\ FhirLog[1].url = client.base_url \o call.resource_type
                                    \o (IF C6_Q # "" THEN "?" \o C6_Q ELSE "")
                /\ FhirLog[1].data = None

\* C7: every follow-up request of a get called with headers H is a GET without
\* body to a next-link URL the server returned, and carries the headers H.
C7_FollowUpsCarryCallerHeaders ==
    \A i \in 2..Len(FhirLog) :
        /\ FhirLog[i].method = "GET"
        /\ FhirLog[i].data = None
        /\ \E j \in 1..(i - 1) : get_next_link(served[j]) = Some(FhirLog[i].url)
        /\ ~IsNone(call.headers)
             => /\ ~IsNone(FhirLog[i].headers)
                /\ \A k \in DOMAIN Val(call.headers) :
                      /\ k \in DOMAIN Val(FhirLog[i].headers)
                      /\ Val(FhirLog[i].headers)[k] = Val(call.headers)[k]

\* C8: when a FHIR exchange of a get returns a non-success status, it is the
\* last exchange of the call, the call raises that failure and no bundle is
\* returned.
C8_FailedExchangeAbortsGet ==
    \A i \in 1..Len(log) :
        (log[i].kind = "fhir" /\ log[i].status = "fail")
            => /\ i = Len(log)
               /\ pc = "raised"
               /\ err = "HTTPError"
               /\ returned = None

\* a follow-up page request failed after pages had been accumulated
C8_Witness ==
    /\ pc = "raised"
    /\ err = "HTTPError"
    /\ Len(FhirLog) >= 3
    /\ FhirLog[Len(FhirLog)].status = "fail"
    /\ size(fqc_bundle) >= 3

\* C9: after add_bundle(O) on a bundle whose JSON has an entry sequence, the
\* resources are the previous resources followed by those of O in O's order,
\* and size has grown by the number of O's entries.
C9_AddBundleAppends ==
    (lastOp.op = "add_bundle" /\ "entry" \in DOMAIN lastOp.before)
        => /\ lastOp.raised = ""
           /\ get_resources_from_bundle(fqc_bundle)
                = get_resources_from_bundle(lastOp.before)
                  \o get_resources_from_bundle(lastOp.other)
           /\ size(fqc_bundle)
                = size(lastOp.before)
                  + (IF "entry" \in DOMAIN lastOp.other THEN Len(lastOp.other.entry) ELSE 0)

\* entries were added to a bundle that already held some
C9_Witness ==
    /\ lastOp.op = "add_bundle"
    /\ "entry" \in DOMAIN lastOp.before
    /\ size(lastOp.before) >= 2
    /\ size(lastOp.other) >= 1
    /\ size(fqc_bundle) >= 3

\* C10: add_bundle(O) with O holding no entries completes without error and
\* leaves the bundle's JSON (hence its resources and size) unchanged, whether
\* the bundle's entry is present, empty or absent.
C10_AddEmptyBundleIsNoOp ==
    (lastOp.op = "add_bundle" /\ size(lastOp.other) = 0)
        => /\ lastOp.raised = ""
           /\ fqc_bundle = lastOp.before

\* the entries of a bundle JSON, none when the entry field is absent
EntriesOf(json) == IF "entry" \in DOMAIN json THEN json.entry ELSE << >>

\* C11: bundle.resource returns None when the bundle holds 0 resources, the
\* resource when it holds exactly 1, and raises ValueError when it holds 2 or
\* more, for the content the bundle has after any add_bundle calls
C11_SingleResourceAccessor ==
    lastOp.op = "resource" =>
        LET entries == EntriesOf(lastOp.before)
        IN  /\ Len(entries) = 0 => (lastOp.raised = "" /\ lastOp.result = None)
            /\ Len(entries) = 1 => (lastOp.raised = "" /\ lastOp.result = Some(entries[1].resource))
            /\ Len(entries) >= 2 => (lastOp.raised = "ValueError" /\ lastOp.result = None)

\* the accessor is used on a bundle that add_bundle grew to three resources
C11_Witness ==
    /\ lastOp.op = "resource"
    /\ Len(EntriesOf(lastOp.before)) >= 3
    /\ lastOp.raised = "ValueError"

\* C12: for a bundle of N entries size = len(bundle) = N and collect_ids()
\* returns the ids of the entries in entry order, also after add_bundle calls
C12_SizeLenAndIdsFollowEntries ==
    lastOp.op = "collect_ids" =>
        LET entries == EntriesOf(lastOp.before)
        IN  /\ lastOp.raised = ""
            /\ lastOp.result.size = Len(entries)
            /\ lastOp.result.len = Len(entries)
            /\ Len(lastOp.result.ids) = Len(entries)
            /\ \A i \in 1..Len(entries) :
                   "id" \in DOMAIN entries[i].resource
                       => lastOp.result.ids[i] = entries[i].resource.id

\* C13: equality, containment, iteration, indexing and truthiness of a bundle
\* depend on resources() only: bundles with equal resource sequences compare
\* equal whatever their link or total, iteration yields resources() in order,
\* r in bundle holds exactly when r is an element of resources(), bundle[i] is
\* resources()[i], and bool(bundle) holds exactly when size > 0
C13_ContainerProtocolOverResources ==
    LET rs == ResourcesOf(EntriesOf(lastOp.before))
    IN  /\ lastOp.op = "eq" =>
               (rs = ResourcesOf(EntriesOf(lastOp.arg.data)) => lastOp.result)
        /\ lastOp.op = "iter" =>
               /\ lastOp.result.iter = rs
               /\ lastOp.result.bool = (Len(rs) > 0)
        /\ lastOp.op = "contains" =>
               (lastOp.result <=> \E i \in 1..Len(rs) : rs[i] = lastOp.arg)
        /\ lastOp.op = "getitem" =>
               (lastOp.arg.index \in 0..(Len(rs) - 1)
                    => lastOp.result = Some(rs[lastOp.arg.index + 1]))

\* the resources of the bundle the last operation was applied to
LastResources == ResourcesOf(EntriesOf(lastOp.before))

\* the Projection Spec the last to_df worked with: the supplied one, or the
\* default of the first resource's type
LastSpec ==
    IF IsNone(lastOp.arg)
    THEN DF_DEFAULT_COLUMNS[LastResources[1].resourceType]
    ELSE Val(lastOp.arg)

\* the names of a Projection Spec, in insertion order
SpecNames(spec) == [k \in 1..Len(spec) |-> spec[k][1]]

\* the keys of a row, in insertion order
RowKeys(row) == [k \in 1..Len(row) |-> row[k][1]]

\* row holds value under name
RowHas(row, name, value) == \E j \in 1..Len(row) : row[j][1] = name /\ row[j][2] = value

\* C14: for every resource and every Projection Spec entry (name, path) the
\* row field for name is the unwrapped value when the path evaluator returns
\* exactly one match, None when it returns none, and the full ordered sequence
\* of matches when it returns more than one
C14_RowFieldByMatchCount ==
    (lastOp.op = "to_df" /\ lastOp.raised = "") =>
        \A i \in 1..Len(lastOp.result.rows), k \in 1..Len(LastSpec) :
            LET matches == evaluate(LastSpec[k][2], LastResources[i])
                row     == lastOp.result.rows[i]
                name    == LastSpec[k][1]
            IN  /\ Len(matches) = 1 => RowHas(row, name, [tag |-> "value", v |-> <<matches[1]>>])
                /\ Len(matches) = 0 => RowHas(row, name, [tag |-> "None", v |-> << >>])
                /\ Len(matches) > 1 => RowHas(row, name, [tag |-> "list", v |-> matches])

\* one projection whose rows hold an unwrapped value, a None and a sequence
C14_Witness ==
    /\ lastOp.op = "to_df" /\ lastOp.raised = ""
    /\ \E i \in 1..Len(lastOp.result.rows) :
           LET row == lastOp.result.rows[i]
           IN  /\ \E j \in 1..Len(row) : row[j][2].tag = "value"
               /\ \E j \in 1..Len(row) : row[j][2].tag = "None"
               /\ \E j \in 1..Len(row) : row[j][2].tag = "list" /\ Len(row[j][2].v) = 2

\* C15: for every bundle, also one without resources or without an entry
\* field, to_df(columns) with a supplied Projection Spec succeeds and yields
\* size() rows, the i-th computed from the i-th resource
C15_ProjectionYieldsOneRowPerResource ==
    (lastOp.op = "to_df" /\ ~IsNone(lastOp.arg)) =>
        /\ lastOp.raised = ""
        /\ Len(lastOp.result.rows) = Len(LastResources)
        /\ \A i \in 1..Len(LastResources) :
               lastOp.result.rows[i] = row_of(LastResources[i], Val(lastOp.arg))

\* C16: every row of a projection has exactly the keys of the Projection Spec
\* in the spec's insertion order, whether its fields are present or absent,
\* and the columns of the table of a non-empty bundle are in that order
C16_RowKeysFollowSpecOrder ==
    (lastOp.op = "to_df" /\ lastOp.raised = "") =>
        /\ \A i \in 1..Len(lastOp.result.rows) :
               RowKeys(lastOp.result.rows[i]) = SpecNames(LastSpec)
        /\ Len(LastResources) > 0 => lastOp.result.columns = SpecNames(LastSpec)

\* a projection in which a field is present in one row and absent in another
C16_Witness ==
    /\ lastOp.op = "to_df" /\ lastOp.raised = "" /\ ~IsNone(lastOp.arg)
    /\ Len(lastOp.result.rows) >= 2
    /\ \E i, j \in 1..Len(lastOp.result.rows), k \in 1..Len(LastSpec) :
           /\ lastOp.result.rows[i][k][2].tag = "None"
           /\ lastOp.result.rows[j][k][2].tag = "value"

\* C17: to_df without a Projection Spec raises ValueError exactly when the
\* bundle has no resources or the type of its first resource has no default
\* spec; otherwise every resource is projected with the default spec of the
\* first resource's type
C17_DefaultProjection ==
    (lastOp.op = "to_df" /\ IsNone(lastOp.arg)) =>
        LET nodefault == \/ Len(LastResources) = 0
                         \/ LastResources[1].resourceType \notin DOMAIN DF_DEFAULT_COLUMNS
        IN  /\ (lastOp.raised = "ValueError") <=> nodefault
            /\ ~nodefault =>
                   /\ lastOp.raised = ""
                   /\ Len(lastOp.result.rows) = Len(LastResources)
                   /\ \A i \in 1..Len(LastResources) :
                          lastOp.result.rows[i] =
                              row_of(LastResources[i],
                                     DF_DEFAULT_COLUMNS[LastResources[1].resourceType])

\* a default projection of a bundle of several resources, not all of the
\* first one's type
C17_Witness ==
    /\ lastOp.op = "to_df" /\ IsNone(lastOp.arg) /\ lastOp.raised = ""
    /\ Len(lastOp.result.rows) >= 2
    /\ \E i \in 1..Len(LastResources) :
           LastResources[i].resourceType # LastResources[1].resourceType

\* the link array of a bundle JSON, empty when the field is absent
LinksOf(json) == IF "link" \in DOMAIN json THEN json.link ELSE << >>

\* C18: get_link(bundle, relation), next_link and previous_link return the url
\* of the first element of the link array with the requested relation, and
\* None when the link field is missing, empty or holds no such element
C18_FirstLinkOfRelation ==
    lastOp.op = "get_link" =>
        LET links == LinksOf(lastOp.before)
            rel   == lastOp.arg.relation
            res   == lastOp.result.get_link
        IN  /\ (\A i \in 1..Len(links) : links[i].relation # rel) => res = None
            /\ \A i \in 1..Len(links) :
                   (/\ links[i].relation = rel
                    /\ \A j \in 1..(i - 1) : links[j].relation # rel)
                       => res = Some(links[i].url)
            /\ rel = "next" => lastOp.result.next_link = res
            /\ rel = "previous" => lastOp.result.previous_link = res

\* a link array with two next elements of different urls is asked for next
C18_Witness ==
    /\ lastOp.op = "get_link" /\ lastOp.arg.relation = "next"
    /\ \E i, j \in 1..Len(LinksOf(lastOp.before)) :
           /\ i < j
           /\ LinksOf(lastOp.before)[i].relation = "next"
           /\ LinksOf(lastOp.before)[j].relation = "next"
           /\ LinksOf(lastOp.before)[i].url # LinksOf(lastOp.before)[j].url
    /\ ~IsNone(lastOp.result.next_link)

IsLogin(x) == x.kind = "login"

\* login mode with login URL, username and password all present
LoginModeFull(c) ==
    /\ c.auth_method = Some("login")
    /\ TruthyStr(c.login_url) /\ TruthyStr(c.username) /\ TruthyStr(c.password)

\* the caller has invoked the login step itself
DirectSetup == lastOp.op = "_setup_login_auth"

\* C19: for a client in login mode with username, password and login URL
\* present, construction performs no login exchange, the first get performs
\* exactly one and performs it before its first FHIR request, and later gets
\* perform none: one login exchange over the client's lifetime
C19_ExactlyOneLazyLogin ==
    (LoginModeFull(client) /\ ~DirectSetup) =>
        /\ pc = "idle" => SelectSeq(log, IsLogin) = << >>
        /\ logins <= 1
        /\ pc \in {"_get", "paging", "done"} => logins = 1
        /\ FhirLog # << >> => logins = 1
        /\ \A i \in 1..Len(log) : log[i].kind = "login" => i = 1

\* C20: in login mode, when username, password or login URL is absent as the
\* login step is invoked (by get or by _setup_login_auth) the operation raises
\* ValueError and issues no FHIR request; a login-mode client issues no FHIR
\* request without having logged in
C20_MissingCredentialsFail ==
    client.auth_method = Some("login") =>
        LET nocreds == ~TruthyStr(client.username) \/ ~TruthyStr(client.password)
            nourl(arg) == ~TruthyStr(arg) /\ ~TruthyStr(client.login_url)
        IN  /\ (pc \in {"_get", "paging", "done", "raised"} /\ call # NoCall
                    /\ (nocreds \/ nourl(None)))
                   => (pc = "raised" /\ err = "ValueError" /\ FhirLog = << >>)
            /\ (pc \in {"setup_done", "raised"} /\ call = NoCall /\ DirectSetup
                    /\ (nocreds \/ nourl(lastOp.arg)))
                   => (pc = "raised" /\ err = "ValueError" /\ log = << >>)
            /\ FhirLog # << >> => (logins >= 1 /\ ~IsNone(client.token))

\* the Authorization value a client holds, None when it holds none
Authorization(c) ==
    IF "Authorization" \in DOMAIN _get_headers(c)
    THEN Some(_get_headers(c)["Authorization"])
    ELSE None

\* the log ends with a login exchange that returned a non-success status
EndsWithFailedLogin(l) ==
    /\ l # << >>
    /\ l[Len(l)].kind = "login"
    /\ l[Len(l)].status = "fail"

\* C21: when the login exchange returns a non-success status the failure is
\* raised to the caller, the Authorization header is left as it was, and the
\* get that triggered the login issues no FHIR request
C21_FailedLoginLeavesHeader ==
    [][/\ (log' # log /\ EndsWithFailedLogin(log'))
            => /\ err' = "HTTPError"
               /\ pc' \in {"raised", "ctor_failed"}
               /\ Authorization(client') = Authorization(client)
               /\ SelectSeq(log', IsFhir) = << >>
       /\ (EndsWithFailedLogin(log) /\ log' # log)
            => SelectSeq(log', IsFhir) = << >>]_vars

\* a get whose login failed, made by a client that already held a Bearer value
C21_Witness ==
    /\ pc = "raised" /\ err = "HTTPError" /\ call # NoCall
    /\ EndsWithFailedLogin(log)
    /\ ~IsNone(Authorization(client))

\* C22: in basic mode with username u and password p present the
\* Authorization header is 'Basic ' followed by base64 of u:p, and with
\* username or password absent no Basic header is produced
C22_BasicHeader ==
    (client.auth_method = Some("basic") /\ ~DirectSetup) =>
        IF TruthyStr(client.username) /\ TruthyStr(client.password)
        THEN Authorization(client)
                 = Some("Basic " \o b64encode(Val(client.username) \o ":" \o Val(client.password)))
        ELSE Authorization(client) = None

\* a basic-mode client sends a FHIR request holding the header of user:pass
C22_Witness ==
    /\ client.auth_method = Some("basic") /\ ~DirectSetup
    /\ client.username = Some("user") /\ client.password = Some("pass")
    /\ Authorization(client) = Some("Basic dXNlcjpwYXNz")
    /\ FhirLog # << >>

\* the log ends with a login exchange that succeeded
EndsWithLogin(l) ==
    /\ l # << >>
    /\ l[Len(l)].kind = "login"
    /\ l[Len(l)].status = "ok"

\* C23: in token mode with token t, and after a successful login exchange
\* whose response body is t, the Authorization header is exactly 'Bearer '
\* followed by t; a later token or login setup replaces the previous value
C23_BearerIsTokenOrBody ==
    /\ (client.auth_method = Some("token") /\ TruthyStr(client.token) /\ logins = 0)
           => Authorization(client) = Some("Bearer " \o Val(client.token))
    /\ EndsWithLogin(log)
           => Authorization(client) = Some("Bearer " \o log[Len(log)].text)

\* C24: after construction base_url ends with '/': one '/' is appended to a
\* base URL without it, a base URL ending in '/' is kept (normalising twice
\* changes nothing), and every request URL the client constructs starts with
\* the normalised base_url
C24_BaseUrlNormalised ==
    /\ \A cfg \in ClientConfigs :
           LET n == FhirClientBase_init(cfg).base_url
           IN  /\ endswith(n, "/")
               /\ endswith(cfg.base_url, "/") => n = cfg.base_url
               /\ ~endswith(cfg.base_url, "/") => n = cfg.base_url \o "/"
               /\ FhirClientBase_init([cfg EXCEPT !.base_url = n]).base_url = n
    /\ client # NoClient =>
           /\ endswith(client.base_url, "/")
           /\ \E b \in BaseUrls : client.base_url \in {b, b \o "/"}
    /\ (call # NoCall /\ ~full_url_truthy(call.full_url) /\ FhirLog # << >>) =>
           startswith(FhirLog[1].url, client.base_url)

\* a get without full_url has sent its request to a URL under the base URL
C24_Witness ==
    /\ pc = "done" /\ call # NoCall /\ ~full_url_truthy(call.full_url)
    /\ client.base_url = "https://srv/fhir/"
    /\ FhirLog # << >>
    /\ FhirLog[1].url = "https://srv/fhir/Patient?name=Smith&_count=1"

\* C25: in a paginated get the URL of each follow-up request is the next link
\* of the response to the request immediately before it, and with pairwise
\* distinct page URLs no URL is requested twice within one get
C25_FollowUpFollowsPrecedingResponse ==
    call # NoCall =>
        /\ \A i \in 2..Len(FhirLog) :
               /\ i - 1 <= Len(served)
               /\ TruthyStr(get_next_link(served[i - 1]))
               /\ FhirLog[i].url = Val(get_next_link(served[i - 1]))
        /\ \A i, j \in 1..Len(FhirLog) : i # j => FhirLog[i].url # FhirLog[j].url

\* every FHIR request of the call went out with the client's Authorization value
CarriesAuthorization ==
    (call # NoCall /\ ~IsNone(Authorization(client))
        /\ "Authorization" \notin DOMAIN OrEmpty(call.headers)) =>
        \A i \in 1..Len(FhirLog) :
            /\ "Authorization" \in DOMAIN wire_headers(client, FhirLog[i].headers)
            /\ wire_headers(client, FhirLog[i].headers)["Authorization"]
                   = Val(Authorization(client))

\* C26: once the Authorization value of a client is computed (at construction
\* in basic and token mode, at the first request in login mode) it stays, and
\* every FHIR request issued afterwards, follow-up requests included, carries
\* it unless the per-call headers hold an Authorization entry of their own
C26_RequestsCarryAuthorization ==
    [][/\ CarriesAuthorization'
       /\ (/\ client # NoClient
           /\ ~IsNone(Authorization(client))
           /\ ~client._pending_login_auth
           /\ ~(pc = "idle" /\ pc' # "ensure_auth"))
              => Authorization(client') = Authorization(client)]_vars

\* a login-mode client has sent a first and a follow-up request with its token
C26_Witness ==
    /\ pc = "done" /\ call # NoCall /\ IsNone(call.headers)
    /\ client.auth_method = Some("login")
    /\ Authorization(client) = Some("Bearer tok1")
    /\ Len(FhirLog) = 2
    /\ wire_headers(client, FhirLog[2].headers)["Authorization"] = "Bearer tok1"

\* max(1, pages), pages absent counting as 1
MaxOneOrPages(pages) == IF IsNone(pages) \/ Val(pages) <= 1 THEN 1 ELSE Val(pages)

\* the requests of a get stay within max(1, pages), a get that has ended has
\* made at least one, and with pages absent or <= 1 the returned bundle is
\* the first response as it came
RequestsWithinPages ==
    call # NoCall =>
        /\ Len(FhirLog) <= MaxOneOrPages(call.pages)
        /\ pc \in {"done", "raised"} => Len(FhirLog) >= 1
        /\ (pc = "done" /\ MaxOneOrPages(call.pages) = 1) =>
               /\ Len(FhirLog) = 1
               /\ returned = Some(served[1])

\* C27: for pages absent, zero, negative or positive and for next links of
\* any shape, a link to the page itself or back to an earlier page included,
\* get ends once its transport exchanges complete, with at least 1 and at most
\* max(1, pages) requests issued; with pages absent or <= 1 it issues exactly
\* one request and returns the first response's bundle unmerged
C27_GetTerminatesWithinPages ==
    /\ []RequestsWithinPages
    /\ (pc \in {"ensure_auth", "_get", "paging"}) ~> (pc \in {"done", "raised"})

\* a get with pages = 2 has ended after two requests against a server whose
\* next link points back at the page just fetched
C27_Witness ==
    /\ pc = "done" /\ call # NoCall
    /\ call.pages = Some(2)
    /\ Len(FhirLog) = 2 /\ Len(served) = 2
    /\ get_next_link(served[2]) = Some(FhirLog[2].url)

\* data.get("total", None)
TotalOf(bundle) == IF "total" \in DOMAIN bundle THEN Some(bundle.total) ELSE None

\* C28: add_bundle(other) changes nothing of this bundle but its entry
\* sequence: the link array, with it next_link and previous_link, and the
\* total are after the call what they were before it, and the JSON of the
\* other bundle is not modified
C28_AddBundleFrame ==
    lastOp.op = "add_bundle" =>
        /\ DOMAIN fqc_bundle = DOMAIN lastOp.before
        /\ \A k \in DOMAIN fqc_bundle \ {"entry"} : fqc_bundle[k] = lastOp.before[k]
        /\ LinksOf(fqc_bundle) = LinksOf(lastOp.before)
        /\ get_next_link(fqc_bundle) = get_next_link(lastOp.before)
        /\ get_previous_link(fqc_bundle) = get_previous_link(lastOp.before)
        /\ TotalOf(fqc_bundle) = TotalOf(lastOp.before)
        /\ lastOp.after = lastOp.other

\* a bundle with links and a total has taken the entries of a bundle whose
\* links differ from its own
C28_Witness ==
    /\ lastOp.op = "add_bundle" /\ lastOp.raised = ""
    /\ lastOp.before = properties_bundle
    /\ lastOp.other = PageJson(1, 2, TRUE)
    /\ size(fqc_bundle) = size(lastOp.before) + 2
    /\ get_next_link(fqc_bundle) = Some("http://example.com/next")
    /\ TotalOf(fqc_bundle) = Some(100)

\* the client of the other variant built from the same configuration, for a
\* client without authentication
Twin(c) ==
    new_client([variant |-> IF c.variant = "sync" THEN "async" ELSE "sync",
                base_url |-> c.base_url, use_post |-> c.use_post,
                headers |-> Some(c._headers),
                auth |-> AuthConfig(None, None, None, None, None)],
               [status |-> "fail", ctype |-> "text", text |-> ""]).client

\* the caller's per-call headers as they go out with a request
CallerHeaders(c, a, headers) ==
    [k \in DOMAIN OrEmpty(a.headers) \cap DOMAIN wire_headers(c, headers) |->
        wire_headers(c, headers)[k]]

\* method, URL, body and caller-supplied headers of a request
RequestOf(c, a, x) ==
    [method |-> x.method, url |-> x.url, data |-> x.data,
     headers |-> CallerHeaders(c, a, x.headers)]

\* C29: the synchronous and the asynchronous client are equivalent: for the
\* same configuration, get arguments and server responses they issue the same
\* requests (method, URL, body, caller-supplied headers), POST searches with
\* no query and paginated calls with per-call headers included
C29_SyncAndAsyncIssueSameRequests ==
    (call # NoCall /\ client # NoClient /\ IsNone(client.auth_method)
        /\ provided_options(call) <= 1) =>
        \A i \in 1..Len(FhirLog) :
            RequestOf(client, call, FhirLog[i])
              = RequestOf(Twin(client), call,
                          IF i = 1
                          THEN first_request(Twin(client), call, FhirLog[i].status, NoBundle).x
                          ELSE make_request("GET", FhirLog[i].url, None,
                                            followup_headers(Twin(client), call),
                                            FhirLog[i].status, NoBundle).x)

\* the lengths k >= 1 for which the last k segments of u are the first k of p
SegmentOverlaps(u, p) ==
    {k \in 1..MinOf(Len(u), Len(p)) :
        SubSeq(u, Len(u) - k + 1, Len(u)) = SubSeq(p, 1, k)}

\* C30: merge_url_with_path(url, path) returns a URL whose segments begin
\* with the segments of url (trailing slashes stripped) and end with those of
\* path (leading slashes stripped), the segments shared by the end of url and
\* the start of path appearing once; when path does not start with a
\* whole-segment suffix of url the result is url + '/' + path
C30_MergeKeepsSegments ==
    lastOp.op = "merge_url_with_path" =>
        LET u == split(rstrip(lastOp.url))
            p == split(lstrip(lastOp.path))
            r == split(lastOp.result)
            k == IF SegmentOverlaps(u, p) = {} THEN 0 ELSE Max(SegmentOverlaps(u, p))
        IN  /\ Len(r) >= Len(u) /\ SubSeq(r, 1, Len(u)) = u
            /\ Len(r) >= Len(p) /\ SubSeq(r, Len(r) - Len(p) + 1, Len(r)) = p
            /\ Len(r) = Len(u) + Len(p) - k
            /\ k = 0 => lastOp.result = rstrip(lastOp.url) \o "/" \o lstrip(lastOp.path)

====
